---------------------------- MODULE Spec2Model ----------------------------
(***************************************************************************)
(* A model of package textwrap (src/textwrapper.go, src/utilities.go):     *)
(* TextWrapper.Wrap, TextWrapper.Fill and the convenience functions Wrap,  *)
(* Fill, Shorten and Dedent.                                               *)
(*                                                                         *)
(* A Go string is modelled as a sequence of characters, a character as a   *)
(* one-element TLA+ string.  len([]rune(s)) is Len(s); len(s), the byte    *)
(* length, is ByteLen(s).  A []string is a sequence of such sequences.     *)
(* Go indexes from 0 and TLA+ from 1: the loop variable i keeps its Go     *)
(* value and At(chunks, i) reads chunks[i].                                *)
(***************************************************************************)
EXTENDS Integers, Sequences, FiniteSets, TLC

(***************************************************************************)
(* Characters and the package-level whitespace variables.                  *)
(***************************************************************************)
Space == " "
Tab == "\t"
Newline == "\n"
VTab == "\\v"
FormFeed == "\f"
Return == "\r"
EmDash == "\\u2014"
Hyphen == "-"

OtherWhitespace == {Tab, Newline, VTab, FormFeed, Return}
Whitespace == {Space} \cup OtherWhitespace

\* The characters that end a sentence and the quotes that may follow them,
\* as SentenceEndingRe names them.
SentenceEnders == {".", "!", "?"}
Quotes == {"'", "\""}

\* len(s) of a Go string counts UTF-8 bytes: the em-dash takes three.
ByteLen(s) ==
    Len(s) + 2 * Cardinality({k \in 1..Len(s) : s[k] = EmDash})

IsWs(c) == c \in Whitespace

(***************************************************************************)
(* Slices.                                                                 *)
(***************************************************************************)
\* s[:n] and s[n:] for 0 <= n <= len(s).
Take(s, n) == SubSeq(s, 1, n)
Drop(s, n) == SubSeq(s, n + 1, Len(s))

\* chunks[i], i counted from 0.
At(chunks, i) == chunks[i + 1]

RECURSIVE Concat(_)
\* strings.Join(ss, "")
Concat(ss) ==
    IF ss = <<>> THEN <<>> ELSE Head(ss) \o Concat(Tail(ss))

RECURSIVE Repeat(_, _)
\* strings.Repeat(s, n) for n >= 0
Repeat(s, n) ==
    IF n <= 0 THEN <<>> ELSE s \o Repeat(s, n - 1)

(***************************************************************************)
(* Strip, Lstrip, Rstrip.                                                  *)
(***************************************************************************)
RECURSIVE Lstrip(_)
Lstrip(s) ==
    IF s # <<>> /\ IsWs(Head(s)) THEN Lstrip(Tail(s)) ELSE s

RECURSIVE Rstrip(_)
Rstrip(s) ==
    IF s # <<>> /\ IsWs(s[Len(s)]) THEN Rstrip(Take(s, Len(s) - 1)) ELSE s

Strip(s) == Rstrip(Lstrip(s))

(***************************************************************************)
(* The preprocessor: tab expansion, whitespace replacement, sentence       *)
(* endings.                                                                *)
(***************************************************************************)
RECURSIVE ExpandTabsIn(_, _)
\* strings.Replace(text, Tab, strings.Repeat(Space, tabSize), -1)
ExpandTabsIn(text, tabSize) ==
    IF text = <<>> THEN <<>>
    ELSE IF Head(text) = Tab
         THEN Repeat(<<Space>>, tabSize) \o ExpandTabsIn(Tail(text), tabSize)
         ELSE <<Head(text)>> \o ExpandTabsIn(Tail(text), tabSize)

\* WhitespaceRe.ReplaceAllString(text, Space)
ReplaceWhitespaceIn(text) ==
    [k \in 1..Len(text) |->
        IF text[k] \in OtherWhitespace THEN Space ELSE text[k]]

\* The length of the match of SentenceEndingRe that starts at position p of
\* text, 0 when there is none, and the length of its group 1.  The optional
\* quote is tried first and given up when no space follows it.
SentenceGroupAt(text, p) ==
    IF p + 2 <= Len(text) /\ ~IsWs(text[p]) /\ text[p + 1] \in SentenceEnders
    THEN IF p + 3 <= Len(text) /\ text[p + 2] \in Quotes /\ text[p + 3] = Space
         THEN 3
         ELSE IF text[p + 2] = Space THEN 2 ELSE 0
    ELSE 0

RECURSIVE SpacesFrom(_, _)
\* The number of consecutive spaces of text starting at position p.
SpacesFrom(text, p) ==
    IF p <= Len(text) /\ text[p] = Space THEN 1 + SpacesFrom(text, p + 1) ELSE 0

RECURSIVE FixSentenceEndingsFrom(_, _)
\* SentenceEndingRe.ReplaceAllString(text, "${1}" + Space + Space), scanning
\* from position p: leftmost matches, not overlapping.
FixSentenceEndingsFrom(text, p) ==
    IF p > Len(text) THEN <<>>
    ELSE LET g == SentenceGroupAt(text, p)
         IN  IF g = 0
             THEN <<text[p]>> \o FixSentenceEndingsFrom(text, p + 1)
             ELSE SubSeq(text, p, p + g - 1) \o <<Space, Space>>
                  \o FixSentenceEndingsFrom(
                         text, p + g + SpacesFrom(text, p + g))

FixSentenceEndingsIn(text) == FixSentenceEndingsFrom(text, 1)

RECURSIVE CollapseFrom(_, _)
\* ConsWhitespaceRe.ReplaceAllString(text, Space): every maximal run of
\* whitespace becomes one space.
CollapseFrom(text, p) ==
    IF p > Len(text) THEN <<>>
    ELSE IF IsWs(text[p])
         THEN IF p > 1 /\ IsWs(text[p - 1])
              THEN CollapseFrom(text, p + 1)
              ELSE <<Space>> \o CollapseFrom(text, p + 1)
         ELSE <<text[p]>> \o CollapseFrom(text, p + 1)

CollapseWhitespace(text) == CollapseFrom(text, 1)

(***************************************************************************)
(* The tokenizer: ChunksHyphenRe and ChunksNoHyphenRe, FindAllString.      *)
(***************************************************************************)
RECURSIVE RunEnd(_, _, _)
\* The last position of the maximal run, starting at p, of characters that
\* are whitespace (ws = TRUE) or are not (ws = FALSE).
RunEnd(text, p, ws) ==
    IF p + 1 <= Len(text) /\ IsWs(text[p + 1]) = ws
    THEN RunEnd(text, p + 1, ws)
    ELSE p

\* The hyphens of text[p+1 .. e]: where [^ws]+- can end.
HyphensIn(text, p, e) == {h \in (p + 1)..e : text[h] = Hyphen}

\* The last position of the chunk that starts at position p.  The
\* alternatives are tried in the order the pattern lists them: the em-dash
\* alone, a run of non-whitespace up to its last hyphen (hyphen grammar
\* only), a run of non-whitespace, a run of whitespace.
ChunkEnd(text, p, onHyphens) ==
    IF text[p] = EmDash THEN p
    ELSE IF IsWs(text[p]) THEN RunEnd(text, p, TRUE)
    ELSE LET e == RunEnd(text, p, FALSE)
             hs == HyphensIn(text, p, e)
         IN  IF onHyphens /\ hs # {}
             THEN CHOOSE h \in hs : \A g \in hs : g <= h
             ELSE e

RECURSIVE ChunksFrom(_, _, _)
ChunksFrom(text, p, onHyphens) ==
    IF p > Len(text) THEN <<>>
    ELSE LET e == ChunkEnd(text, p, onHyphens)
         IN  <<SubSeq(text, p, e)>> \o ChunksFrom(text, e + 1, onHyphens)

\* ChunksHyphenRe.FindAllString(text, -1) when onHyphens, else
\* ChunksNoHyphenRe.FindAllString(text, -1).
Tokenize(text, onHyphens) == ChunksFrom(text, 1, onHyphens)

(***************************************************************************)
(* TextWrapper and NewTextWrapper's defaults.                              *)
(***************************************************************************)
DefaultWidth == 70
DefaultTabSize == 8
DefaultMaxLines == 0
DefaultPlaceholder == <<" ", "[", ".", ".", ".", "]">>

\* NewTextWrapper(): every field at its default value.
NewTextWrapper ==
    [Width              |-> DefaultWidth,
     ExpandTabs         |-> TRUE,
     TabSize            |-> DefaultTabSize,
     ReplaceWhitespace  |-> TRUE,
     DropWhitespace     |-> TRUE,
     InitialIndent      |-> <<>>,
     SubsequentIndent   |-> <<>>,
     FixSentenceEndings |-> FALSE,
     BreakLongWords     |-> TRUE,
     BreakOnHyphens     |-> TRUE,
     MaxLines           |-> DefaultMaxLines,
     Placeholder        |-> DefaultPlaceholder]

(***************************************************************************)
(* Wrap, first part: the three checks that panic.                          *)
(***************************************************************************)
PanicWidth == "Width must be at least 1."
PanicTabSize == "Tab size must be at least 0 to expand tabs."
PanicPlaceholder == "Placeholder is too wide to fit on indented line."
PanicSlice == "runtime error: slice bounds out of range"
NoPanic == ""

\* LastIndent, were the check to read the subsequent indent for every cap.
LastIndentSubsequent(tw) == tw.SubsequentIndent

\* The indent the placeholder check measures.
LastIndent(tw) ==
    IF tw.MaxLines = 1 THEN tw.InitialIndent ELSE tw.SubsequentIndent

\* The panic Wrap raises for tw before it touches the text, NoPanic if none.
Validate(tw) ==
    IF tw.Width < 1 THEN PanicWidth
    ELSE IF tw.ExpandTabs /\ tw.TabSize < 0 THEN PanicTabSize
    ELSE IF tw.MaxLines > 0
            /\ ByteLen(LastIndent(tw)) + ByteLen(Lstrip(tw.Placeholder))
                   > tw.Width
         THEN PanicPlaceholder
         ELSE NoPanic

(***************************************************************************)
(* Wrap, second part: the text before it is split into chunks.             *)
(***************************************************************************)
Preprocessed(tw, text) ==
    LET expanded == IF tw.ExpandTabs
                    THEN ExpandTabsIn(text, tw.TabSize) ELSE text
        replaced == IF tw.ReplaceWhitespace
                    THEN ReplaceWhitespaceIn(expanded) ELSE expanded
    IN  IF tw.FixSentenceEndings
        THEN FixSentenceEndingsIn(replaced) ELSE replaced

(***************************************************************************)
(* Wrap, third part: one pass of the loop over the lines.                  *)
(***************************************************************************)
RECURSIVE GreedyFillLoose(_, _, _, _, _)
\* GreedyFill, were a chunk that fills the width exactly to be appended.
GreedyFillLoose(chunks, j, curLine, curLen, width) ==
    IF j < Len(chunks)
    THEN IF curLen + Len(At(chunks, j)) > width
         THEN [i |-> j - 1, curLine |-> curLine, curLen |-> curLen]
         ELSE GreedyFillLoose(chunks, j + 1, Append(curLine, At(chunks, j)),
                              curLen + Len(At(chunks, j)), width)
    ELSE [i |-> j, curLine |-> curLine, curLen |-> curLen]

RECURSIVE GreedyFill(_, _, _, _, _)
\* The inner loop: chunks are appended from index j while the line stays
\* shorter than width.  It leaves i one before the chunk that stopped it,
\* or at len(chunks).
GreedyFill(chunks, j, curLine, curLen, width) ==
    IF j < Len(chunks)
    THEN IF curLen + Len(At(chunks, j)) >= width
         THEN [i |-> j - 1, curLine |-> curLine, curLen |-> curLen]
         ELSE GreedyFill(chunks, j + 1, Append(curLine, At(chunks, j)),
                         curLen + Len(At(chunks, j)), width)
    ELSE [i |-> j, curLine |-> curLine, curLen |-> curLen]

\* IndentFor, were every line to be given the initial indent.
IndentForInitial(tw, lines) == tw.InitialIndent

\* The indent of the line being built.
IndentFor(tw, lines) ==
    IF Len(lines) > 0 THEN tw.SubsequentIndent ELSE tw.InitialIndent

\* IsMaxLine, were the cap to be met one line late.
IsMaxLineLate(tw, lines) == tw.MaxLines > 0 /\ Len(lines) = tw.MaxLines

\* Whether the line being built is line number MaxLines.
IsMaxLine(tw, lines) == tw.MaxLines > 0 /\ Len(lines) = tw.MaxLines - 1

\* The width left for the chunks of the line being built.
LineWidth(tw, lines) ==
    tw.Width - Len(IndentFor(tw, lines))
        - (IF IsMaxLine(tw, lines) THEN ByteLen(tw.Placeholder) ELSE 0)

\* The number of runes of the long chunk that go to the current line.
SpaceLeft(width, curLen) == IF width >= 1 THEN width - curLen ELSE 1

\* SkipLeading, were no chunk to be skipped.
SkipLeadingNever(tw, chunks, i, lines) == i

\* The index at which the pass starts: a whitespace chunk that would open a
\* line after the first is skipped.
SkipLeading(tw, chunks, i, lines) ==
    IF Len(lines) > 0 /\ tw.DropWhitespace /\ Strip(At(chunks, i)) = <<>>
    THEN i + 1 ELSE i

\* Peek, were a long chunk to be appended whole to a line that holds chunks
\* already.
PeekAppendsToAny(tw, chunks, lines, f, width) ==
    IF f.i + 1 < Len(chunks) /\ Len(At(chunks, f.i + 1)) > width
    THEN IF tw.BreakLongWords
         THEN LET c == At(chunks, f.i + 1)
                  spaceLeft == SpaceLeft(width, f.curLen)
              IN  IF spaceLeft < 0 \/ spaceLeft > Len(c)
                  THEN [arm |-> "panic", i |-> f.i, chunks |-> chunks,
                        curLine |-> f.curLine, curLen |-> f.curLen]
                  ELSE [arm |-> "split", i |-> f.i,
                        chunks |-> [chunks EXCEPT ![f.i + 2] =
                                        Drop(c, spaceLeft)],
                        curLine |-> Append(f.curLine, Take(c, spaceLeft)),
                        curLen |-> f.curLen + spaceLeft]
         ELSE IF Len(lines) # tw.MaxLines - 1
              THEN [arm |-> "append", i |-> f.i + 1, chunks |-> chunks,
                    curLine |-> Append(f.curLine, At(chunks, f.i + 1)),
                    curLen |-> f.curLen + Len(At(chunks, f.i + 1))]
              ELSE [arm |-> "none", i |-> f.i, chunks |-> chunks,
                    curLine |-> f.curLine, curLen |-> f.curLen]
    ELSE [arm |-> "none", i |-> f.i, chunks |-> chunks,
          curLine |-> f.curLine, curLen |-> f.curLen]

\* The look at the chunk after the one the inner loop stopped on: split it,
\* append it whole, or leave it.  c[:spaceLeft] and c[spaceLeft:] panic when
\* spaceLeft is outside 0..len(c) (Go may accept c[:spaceLeft] up to cap(c),
\* and then c[spaceLeft:] panics).
Peek(tw, chunks, lines, f, width) ==
    IF f.i + 1 < Len(chunks) /\ Len(At(chunks, f.i + 1)) > width
    THEN IF tw.BreakLongWords
         THEN LET c == At(chunks, f.i + 1)
                  spaceLeft == SpaceLeft(width, f.curLen)
              IN  IF spaceLeft < 0 \/ spaceLeft > Len(c)
                  THEN [arm |-> "panic", i |-> f.i, chunks |-> chunks,
                        curLine |-> f.curLine, curLen |-> f.curLen]
                  ELSE [arm |-> "split", i |-> f.i,
                        chunks |-> [chunks EXCEPT ![f.i + 2] =
                                        Drop(c, spaceLeft)],
                        curLine |-> Append(f.curLine, Take(c, spaceLeft)),
                        curLen |-> f.curLen + spaceLeft]
         ELSE IF f.curLen = 0 /\ Len(lines) # tw.MaxLines - 1
              THEN [arm |-> "append", i |-> f.i + 1, chunks |-> chunks,
                    curLine |-> Append(f.curLine, At(chunks, f.i + 1)),
                    curLen |-> f.curLen + Len(At(chunks, f.i + 1))]
              ELSE [arm |-> "none", i |-> f.i, chunks |-> chunks,
                    curLine |-> f.curLine, curLen |-> f.curLen]
    ELSE [arm |-> "none", i |-> f.i, chunks |-> chunks,
          curLine |-> f.curLine, curLen |-> f.curLen]

\* DropTrailing, were the last chunk to be dropped whatever it holds.
DropTrailingAny(tw, curLine, curLen) ==
    IF tw.DropWhitespace /\ curLen > 0
    THEN [curLine |-> Take(curLine, Len(curLine) - 1),
          curLen |-> curLen - Len(curLine[Len(curLine)])]
    ELSE [curLine |-> curLine, curLen |-> curLen]

\* The line without a trailing whitespace chunk, when DropWhitespace.
DropTrailing(tw, curLine, curLen) ==
    IF tw.DropWhitespace /\ curLen > 0
       /\ Strip(curLine[Len(curLine)]) = <<>>
    THEN [curLine |-> Take(curLine, Len(curLine) - 1),
          curLen |-> curLen - Len(curLine[Len(curLine)])]
    ELSE [curLine |-> curLine, curLen |-> curLen]

\* What the placeholder line appends to the chunks of the line.
PlaceholderFor(tw, curLen) ==
    IF curLen = 0 THEN Lstrip(tw.Placeholder) ELSE tw.Placeholder

\* One pass of the outer loop, entered with i < len(chunks).  outcome is
\* "continue" (the pass ended, i++ done), "break" (the placeholder line was
\* appended) or "panic".
Iteration(tw, chunks, i, lines) ==
    LET indent == IndentFor(tw, lines)
        width == LineWidth(tw, lines)
        f == GreedyFill(chunks, SkipLeading(tw, chunks, i, lines),
                        <<>>, 0, width)
        p == Peek(tw, chunks, lines, f, width)
        d == DropTrailing(tw, p.curLine, p.curLen)
        loc == [indent |-> indent, width |-> width, arm |-> p.arm]
    IN  IF p.arm = "panic"
        THEN loc @@ [outcome |-> "panic", chunks |-> chunks, i |-> i,
                     lines |-> lines, curLine |-> p.curLine,
                     curLen |-> p.curLen]
        ELSE IF IsMaxLine(tw, lines)
        THEN LET last == Append(d.curLine, PlaceholderFor(tw, d.curLen))
             IN  loc @@ [outcome |-> "break", chunks |-> p.chunks,
                         i |-> p.i,
                         lines |-> Append(lines, indent \o Concat(last)),
                         curLine |-> last, curLen |-> d.curLen]
        ELSE loc @@ [outcome |-> "continue", chunks |-> p.chunks,
                     i |-> p.i + 1,
                     lines |-> IF d.curLen > 0
                               THEN Append(lines,
                                           indent \o Concat(d.curLine))
                               ELSE lines,
                     curLine |-> d.curLine, curLen |-> d.curLen]

\* Whether a pass entered at (chunks, i, lines) leaves all three as they
\* were: the loop then repeats that pass for ever.
Repeats(tw, chunks, i, lines) ==
    LET r == Iteration(tw, chunks, i, lines)
    IN  r.outcome = "continue" /\ r.chunks = chunks /\ r.i = i
        /\ r.lines = lines

RECURSIVE RunLoop(_, _, _, _)
\* The loop over the lines run from (chunks, i, lines) to its end: the lines
\* returned, a panic, or "hang" when a pass repeats.  i and lines never
\* decrease and no chunk grows, so the loop fails to end only by repeating
\* one pass.
RunLoop(tw, chunks, i, lines) ==
    IF i >= Len(chunks)
    THEN [outcome |-> "return", lines |-> lines, err |-> NoPanic]
    ELSE LET r == Iteration(tw, chunks, i, lines)
         IN  CASE r.outcome = "panic" ->
                     [outcome |-> "panic", lines |-> <<>>,
                      err |-> PanicSlice]
               [] r.outcome = "break" ->
                     [outcome |-> "return", lines |-> r.lines,
                      err |-> NoPanic]
               [] OTHER ->
                     IF Repeats(tw, chunks, i, lines)
                     THEN [outcome |-> "hang", lines |-> <<>>,
                           err |-> NoPanic]
                     ELSE RunLoop(tw, r.chunks, r.i, r.lines)

\* t.Wrap(text) as a whole.
WrapOf(tw, text) ==
    IF Validate(tw) # NoPanic
    THEN [outcome |-> "panic", lines |-> <<>>, err |-> Validate(tw)]
    ELSE RunLoop(tw, Tokenize(Preprocessed(tw, text), tw.BreakOnHyphens),
                 0, <<>>)

(***************************************************************************)
(* Fill.                                                                   *)
(***************************************************************************)
\* Join, were the separator to be left out.
JoinNoSeparator(ss, sep) == Concat(ss)

RECURSIVE Join(_, _)
\* strings.Join(ss, sep), sep one character
Join(ss, sep) ==
    IF ss = <<>> THEN <<>>
    ELSE IF Len(ss) = 1 THEN Head(ss)
    ELSE Head(ss) \o <<sep>> \o Join(Tail(ss), sep)

\* t.Fill(text) as a whole.
FillOf(tw, text) ==
    LET w == WrapOf(tw, text)
    IN  [outcome |-> w.outcome, err |-> w.err,
         filled |-> Join(w.lines, Newline)]

\* Shorten(text, opts...) as a whole, o the TextWrapper of the options.
ShortenOf(o, text) ==
    FillOf([o EXCEPT !.MaxLines = 1], CollapseWhitespace(text))

(***************************************************************************)
(* Dedent.                                                                 *)
(***************************************************************************)
NextLine == "\\u0085"
NoBreakSpace == "\\u00A0"

\* The characters strings.TrimSpace trims: unicode.IsSpace, of which the
\* Latin-1 ones are kept here.
UnicodeSpace == Whitespace \cup {NextLine, NoBreakSpace}

RECURSIVE TrimSpaceLeft(_)
TrimSpaceLeft(s) ==
    IF s # <<>> /\ Head(s) \in UnicodeSpace THEN TrimSpaceLeft(Tail(s))
    ELSE s

RECURSIVE TrimSpaceRight(_)
TrimSpaceRight(s) ==
    IF s # <<>> /\ s[Len(s)] \in UnicodeSpace
    THEN TrimSpaceRight(Take(s, Len(s) - 1)) ELSE s

\* strip = strings.TrimSpace
strip(s) == TrimSpaceRight(TrimSpaceLeft(s))

RECURSIVE SplitFrom(_, _, _)
\* strings.Split(text, sep) from the character k on, cur the piece begun
SplitFrom(s, k, cur) ==
    IF k > Len(s) THEN <<cur>>
    ELSE IF s[k] = Newline THEN <<cur>> \o SplitFrom(s, k + 1, <<>>)
    ELSE SplitFrom(s, k + 1, Append(cur, s[k]))

\* strings.Split(text, Newline)
SplitLines(s) == SplitFrom(s, 1, <<>>)

\* LeadWhitespaceRe.FindString(line): the longest prefix of line made of
\* characters of Whitespace.
LeadWhitespace(line) == Take(line, Len(line) - Len(Lstrip(line)))

RECURSIVE CommonPrefixLenFrom(_, _, _)
CommonPrefixLenFrom(s, u, j) ==
    IF j < Len(s) /\ j < Len(u) /\ s[j + 1] = u[j + 1]
    THEN CommonPrefixLenFrom(s, u, j + 1) ELSE j

\* CommonPrefixLen, were the runes not to be compared.
CommonPrefixLenUncompared(s, u) == IF Len(s) < Len(u) THEN Len(s) ELSE Len(u)

\* The j the loop over the runes of indent and line ends with.
CommonPrefixLen(s, u) == CommonPrefixLenFrom(s, u, 0)

\* strings.TrimPrefix(s, prefix)
TrimPrefix(s, prefix) ==
    IF Len(prefix) <= Len(s) /\ Take(s, Len(prefix)) = prefix
    THEN Drop(s, Len(prefix)) ELSE s

\* One pass of Dedent's first loop, over lines[i]: the line is blanked, or
\* gives the first indent, or shortens the indent.
DedentScan(lines, i, indent, start) ==
    LET line == At(lines, i)
    IN  IF strip(line) = <<>>
        THEN [lines |-> [lines EXCEPT ![i + 1] = <<>>], indent |-> indent,
              start |-> start]
        ELSE IF start
        THEN [lines |-> lines, indent |-> LeadWhitespace(line),
              start |-> FALSE]
        ELSE IF ByteLen(indent) # 0
        THEN [lines |-> lines,
              indent |-> Take(indent, CommonPrefixLen(indent, line)),
              start |-> start]
        ELSE [lines |-> lines, indent |-> indent, start |-> start]

\* Dedent's second loop and its return.
DedentTrim(lines, indent) ==
    Join([k \in 1..Len(lines) |-> TrimPrefix(lines[k], indent)], Newline)

RECURSIVE DedentLoop(_, _, _, _)
DedentLoop(lines, i, indent, start) ==
    IF i >= Len(lines) THEN DedentTrim(lines, indent)
    ELSE LET r == DedentScan(lines, i, indent, start)
         IN  DedentLoop(r.lines, i + 1, r.indent, r.start)

\* Dedent(text) as a whole.
DedentOf(text) == DedentLoop(SplitLines(text), 0, <<>>, TRUE)

(***************************************************************************)
(* The inputs of a call.                                                   *)
(***************************************************************************)
MaxWidth == 3
MaxTextLen == 4
MaxTabSize == 1
MaxMaxLines == 2

RECURSIVE Strings(_, _)
\* The strings over alphabet of length at most n.
Strings(alphabet, n) ==
    IF n = 0 THEN {<<>>}
    ELSE LET shorter == Strings(alphabet, n - 1)
         IN  shorter \cup {Append(s, c) : s \in shorter, c \in alphabet}

\* "The quick brown fox jumped over the lazy dog"
FoxText ==
    <<"T", "h", "e", " ", "q", "u", "i", "c", "k", " ",
      "b", "r", "o", "w", "n", " ", "f", "o", "x", " ",
      "j", "u", "m", "p", "e", "d", " ", "o", "v", "e", "r", " ",
      "t", "h", "e", " ", "l", "a", "z", "y", " ", "d", "o", "g">>

\* "Hello  world, how are you?"
HelloText ==
    <<"H", "e", "l", "l", "o", " ", " ", "w", "o", "r", "l", "d", ",", " ",
      "h", "o", "w", " ", "a", "r", "e", " ", "y", "o", "u", "?">>

\* The values the options of the calls are drawn from.
Widths == 0..MaxWidth
TabSizes == -1..MaxTabSize
LineCaps == 0..MaxMaxLines
Placeholders == {<<"~">>, <<" ", "~">>}

\* Calls of Wrap that vary what the loop over the lines reads.
PackCalls ==
    [op : {"Wrap"},
     opts : {[NewTextWrapper EXCEPT
                 !.Width = w, !.InitialIndent = ii,
                 !.SubsequentIndent = si, !.DropWhitespace = dw,
                 !.BreakLongWords = blw, !.MaxLines = ml,
                 !.Placeholder = ph] :
                 w \in Widths, ii \in {<<>>, <<">", ">">>},
                 si \in {<<>>, <<"+">>}, dw \in BOOLEAN, blw \in BOOLEAN,
                 ml \in LineCaps, ph \in Placeholders},
     input : Strings({"a", Space}, MaxTextLen)]

\* Calls of Wrap that vary what tab expansion and whitespace replacement
\* read.
TabCalls ==
    [op : {"Wrap"},
     opts : {[NewTextWrapper EXCEPT
                 !.Width = MaxWidth, !.ExpandTabs = et, !.TabSize = ts,
                 !.ReplaceWhitespace = rw] :
                 et \in BOOLEAN, ts \in TabSizes, rw \in BOOLEAN},
     input : Strings({"a", Space, Tab, Newline}, MaxTextLen - 1)]

\* Calls of Wrap that vary what the sentence endings and the tokenizer read.
TokenCalls ==
    [op : {"Wrap"},
     opts : {[NewTextWrapper EXCEPT
                 !.Width = MaxWidth, !.FixSentenceEndings = fse,
                 !.BreakOnHyphens = boh] :
                 fse \in BOOLEAN, boh \in BOOLEAN},
     input : Strings({"a", ".", "'", Hyphen, EmDash, Space},
                     MaxTextLen - 1)]

\* Calls of Wrap whose first line has no room after its indent and whose
\* later lines have all of Width.
WideIndentCalls ==
    [op : {"Wrap"},
     opts : {[NewTextWrapper EXCEPT
                 !.Width = MaxWidth,
                 !.InitialIndent = Repeat(<<">">>, MaxWidth),
                 !.DropWhitespace = dw, !.BreakLongWords = blw] :
                 dw \in BOOLEAN, blw \in BOOLEAN},
     input : Strings({"a", Space}, MaxTextLen)]

\* "abc d"
LetterText == <<"a", "b", "c", " ", "d">>

\* Calls of Wrap on a text whose letters differ.
LetterCalls ==
    [op : {"Wrap"},
     opts : {[NewTextWrapper EXCEPT
                 !.Width = w, !.InitialIndent = ii,
                 !.DropWhitespace = dw, !.BreakLongWords = blw] :
                 w \in Widths, ii \in {<<>>, <<">", ">">>},
                 dw \in BOOLEAN, blw \in BOOLEAN},
     input : {LetterText}]

\* Calls of Fill.
FillCalls ==
    [op : {"Fill"},
     opts : {[NewTextWrapper EXCEPT
                 !.Width = w, !.InitialIndent = ii, !.DropWhitespace = dw,
                 !.BreakLongWords = blw, !.MaxLines = ml,
                 !.Placeholder = <<" ", "~">>] :
                 w \in Widths, ii \in {<<>>, <<">", ">">>},
                 dw \in BOOLEAN, blw \in BOOLEAN, ml \in LineCaps},
     input : Strings({"a", Space}, MaxTextLen - 1)]

\* Calls of Shorten.
ShortenCalls ==
    [op : {"Shorten"},
     opts : {[NewTextWrapper EXCEPT
                 !.Width = w, !.ExpandTabs = et, !.TabSize = ts,
                 !.ReplaceWhitespace = rw, !.MaxLines = ml,
                 !.Placeholder = <<" ", "~">>] :
                 w \in Widths, et \in BOOLEAN, ts \in TabSizes,
                 rw \in BOOLEAN, ml \in LineCaps},
     input : Strings({"a", Tab}, MaxTextLen - 1)]

\* The calls of the package documentation and of its wide defaults.
DocCalls ==
    {[op |-> "Wrap", opts |-> [NewTextWrapper EXCEPT !.Width = 10],
      input |-> FoxText],
     [op |-> "Fill", opts |-> [NewTextWrapper EXCEPT !.Width = 10],
      input |-> FoxText],
     [op |-> "Shorten", opts |-> [NewTextWrapper EXCEPT !.Width = 11],
      input |-> HelloText],
     [op |-> "Shorten", opts |-> NewTextWrapper, input |-> HelloText]}

\* "  a\n    b\n  c\n"
IndentedText ==
    <<" ", " ", "a", Newline, " ", " ", " ", " ", "b", Newline,
      " ", " ", "c", Newline>>

\* Calls of Dedent: short texts over a letter and three whitespace
\* characters, the documented text, and lines that hold a space only
\* strings.TrimSpace knows.
DedentCalls ==
    [op : {"Dedent"},
     opts : {NewTextWrapper},
     input : Strings({"a", Space, Tab, Newline}, MaxTextLen + 2)
                 \cup {IndentedText,
                       <<" ", "a", Newline, NoBreakSpace>>,
                       <<" ", NoBreakSpace, "a", Newline, " ",
                         NoBreakSpace, "a">>}]

Calls ==
    PackCalls \cup TabCalls \cup TokenCalls \cup FillCalls
        \cup ShortenCalls \cup DocCalls \cup DedentCalls
        \cup WideIndentCalls \cup LetterCalls

(***************************************************************************)
(* The state of one call.                                                  *)
(***************************************************************************)
VARIABLES
    op,       \* the function called: "Wrap", "Fill", "Shorten", "Dedent"
    opts,     \* the TextWrapper the options of the call describe
    input,    \* the text passed to the call
    t,        \* the TextWrapper the call works with
    text,     \* Wrap's text
    chunks,   \* Wrap's chunks
    i,        \* Wrap's loop index; the index of Dedent's first loop
    lines,    \* Wrap's lines; Dedent's lines
    indent,   \* indent, width, curLine, curLen of the last pass of the loop;
              \* Dedent's indent
    width,
    curLine,
    curLen,
    arm,      \* what the last pass did with the chunk it looked ahead at
    start,    \* Dedent's start
    filled,   \* the string Fill or Dedent returns
    err,      \* the panic raised, NoPanic if none
    pc        \* where the call stands

vars == <<op, opts, input, t, text, chunks, i, lines, indent, width,
          curLine, curLen, arm, start, filled, err, pc>>

call == <<op, opts, input>>
locals == <<indent, width, curLine, curLen, arm, start>>

Init ==
    /\ \E c \in Calls : op = c.op /\ opts = c.opts /\ input = c.input
    /\ t = NewTextWrapper
    /\ text = input
    /\ chunks = <<>>
    /\ i = 0
    /\ lines = <<>>
    /\ indent = <<>>
    /\ width = 0
    /\ curLine = <<>>
    /\ curLen = 0
    /\ arm = "none"
    /\ start = TRUE
    /\ filled = <<>>
    /\ err = NoPanic
    /\ pc = "call"

\* Wrap(text, opts...) and Fill(text, opts...): t := NewTextWrapper(opts...)
CallWrapper ==
    /\ pc = "call"
    /\ op \in {"Wrap", "Fill"}
    /\ t' = opts
    /\ pc' = "check"
    /\ UNCHANGED <<call, text, chunks, i, lines, locals, filled, err>>

\* Shorten(text, opts...): one line, whitespace collapsed
CallShorten ==
    /\ pc = "call"
    /\ op = "Shorten"
    /\ t' = [opts EXCEPT !.MaxLines = 1]
    /\ text' = CollapseWhitespace(text)
    /\ pc' = "check"
    /\ UNCHANGED <<call, chunks, i, lines, locals, filled, err>>

\* Wrap: the checks of the TextWrapper's fields
Check ==
    /\ pc = "check"
    /\ err' = Validate(t)
    /\ pc' = IF Validate(t) = NoPanic THEN "prepare" ELSE "panicked"
    /\ UNCHANGED <<call, t, text, chunks, i, lines, locals, filled>>

\* Wrap: tabs, whitespace, sentence endings
Prepare ==
    /\ pc = "prepare"
    /\ text' = Preprocessed(t, text)
    /\ pc' = "split"
    /\ UNCHANGED <<call, t, chunks, i, lines, locals, filled, err>>

\* Wrap: the text broken into chunks, the loop entered
Split ==
    /\ pc = "split"
    /\ chunks' = Tokenize(text, t.BreakOnHyphens)
    /\ i' = 0
    /\ lines' = <<>>
    /\ pc' = "loop"
    /\ UNCHANGED <<call, t, text, locals, filled, err>>

\* Wrap: one pass of the loop over the lines
Pass ==
    /\ pc = "loop"
    /\ i < Len(chunks)
    /\ LET r == Iteration(t, chunks, i, lines)
       IN  /\ chunks' = r.chunks
           /\ i' = r.i
           /\ lines' = r.lines
           /\ indent' = r.indent
           /\ width' = r.width
           /\ curLine' = r.curLine
           /\ curLen' = r.curLen
           /\ arm' = r.arm
           /\ err' = IF r.outcome = "panic" THEN PanicSlice ELSE err
           /\ pc' = CASE r.outcome = "continue" -> "loop"
                      [] r.outcome = "break" -> "return"
                      [] r.outcome = "panic" -> "panicked"
    /\ UNCHANGED <<call, t, text, start, filled>>

\* Wrap: the loop ends with the chunks
LoopEnd ==
    /\ pc = "loop"
    /\ i >= Len(chunks)
    /\ pc' = "return"
    /\ UNCHANGED <<call, t, text, chunks, i, lines, locals, filled, err>>

\* Wrap returns lines
ReturnWrap ==
    /\ pc = "return"
    /\ op = "Wrap"
    /\ pc' = "done"
    /\ UNCHANGED <<call, t, text, chunks, i, lines, locals, filled, err>>

\* Fill returns the lines joined with Newline
ReturnFill ==
    /\ pc = "return"
    /\ op \in {"Fill", "Shorten"}
    /\ filled' = Join(lines, Newline)
    /\ pc' = "done"
    /\ UNCHANGED <<call, t, text, chunks, i, lines, locals, err>>

\* Dedent(text): text split at Newline
CallDedent ==
    /\ pc = "call"
    /\ op = "Dedent"
    /\ lines' = SplitLines(text)
    /\ i' = 0
    /\ indent' = <<>>
    /\ start' = TRUE
    /\ pc' = "scan"
    /\ UNCHANGED <<call, t, text, chunks, width, curLine, curLen, arm,
                   filled, err>>

\* Dedent: one pass of the loop that finds the indent
Scan ==
    /\ pc = "scan"
    /\ i < Len(lines)
    /\ LET r == DedentScan(lines, i, indent, start)
       IN  /\ lines' = r.lines
           /\ indent' = r.indent
           /\ start' = r.start
    /\ i' = i + 1
    /\ UNCHANGED <<call, t, text, chunks, width, curLine, curLen, arm,
                   filled, err, pc>>

\* Dedent: the indent trimmed from every line, the lines joined and returned
ReturnDedent ==
    /\ pc = "scan"
    /\ i >= Len(lines)
    /\ lines' = [k \in 1..Len(lines) |-> TrimPrefix(lines[k], indent)]
    /\ filled' = DedentTrim(lines, indent)
    /\ pc' = "done"
    /\ UNCHANGED <<call, t, text, chunks, i, locals, err>>

Next ==
    \/ CallDedent
    \/ Scan
    \/ ReturnDedent
    \/ CallWrapper
    \/ CallShorten
    \/ Check
    \/ Prepare
    \/ Split
    \/ Pass
    \/ LoopEnd
    \/ ReturnWrap
    \/ ReturnFill

Spec == Init /\ [][Next]_vars

(***************************************************************************)
(* Properties.                                                             *)
(***************************************************************************)
TypeOK ==
    /\ op \in {"Wrap", "Fill", "Shorten", "Dedent"}
    /\ pc \in {"call", "check", "prepare", "split", "loop", "return",
               "scan", "done", "panicked"}
    /\ err \in {NoPanic, PanicWidth, PanicTabSize, PanicPlaceholder,
                PanicSlice}
    /\ i \in Int
    /\ arm \in {"none", "split", "append", "panic"}

\* The call is inside Wrap's loop, or past it.
InOrPastLoop == pc \in {"loop", "return", "done"}

\* suffix ends s
EndsWith(s, suffix) ==
    /\ Len(suffix) <= Len(s)
    /\ SubSeq(s, Len(s) - Len(suffix) + 1, Len(s)) = suffix

\* The indent line number k (from 1) is given.
IndentOfLine(k) == IF k = 1 THEN t.InitialIndent ELSE t.SubsequentIndent

RECURSIVE Runes(_)
\* The number of runes of a sequence of strings.
Runes(ss) == IF ss = <<>> THEN 0 ELSE Len(Head(ss)) + Runes(Tail(ss))

\* C1: every line Wrap has appended to lines is at most Width runes long,
\* indent and placeholder included, unless BreakLongWords is false and the
\* line is its indent followed by one whole chunk.
C1_LinesFitWidth ==
    InOrPastLoop =>
        \A k \in 1..Len(lines) :
            \/ Len(lines[k]) <= t.Width
            \/ /\ ~t.BreakLongWords
               /\ \E j \in 1..Len(chunks) :
                      lines[k] = IndentOfLine(k) \o chunks[j]

\* C2: every pass of the loop ends the loop (the placeholder line) or
\* leaves fewer chunks ahead of i, or fewer runes in them, than it found;
\* no pass leaves chunks, i and lines as they were.
C2_EveryPassAdvances ==
    (pc = "loop" /\ i < Len(chunks)) =>
        LET r == Iteration(t, chunks, i, lines)
        IN  \/ r.outcome # "continue"
            \/ r.i > i
            \/ Runes(r.chunks) < Runes(chunks)

\* Some chunk after index i still holds text.
ChunksRemain == \E j \in (i + 1)..(Len(chunks) - 1) : At(chunks, j) # <<>>

\* C3: with MaxLines = N > 0 the placeholder line is appended only when
\* chunks remain after it, and Shorten of a text whose collapsed form is at
\* most Width runes long returns that collapsed form.
C3_PlaceholderOnlyWhenTruncated ==
    /\ (InOrPastLoop /\ t.MaxLines > 0 /\ Len(lines) = t.MaxLines)
           => ChunksRemain
    /\ (pc = "done" /\ op = "Shorten"
          /\ Len(CollapseWhitespace(input)) <= t.Width)
           => filled = CollapseWhitespace(input)

\* The placeholder line has been appended: lines holds MaxLines lines.
AtLineCap == InOrPastLoop /\ t.MaxLines > 0 /\ Len(lines) = t.MaxLines

ConfigPanics == {PanicWidth, PanicTabSize, PanicPlaceholder}

\* C5: Wrap panics on its TextWrapper exactly when Width < 1, or ExpandTabs
\* and TabSize < 0, or MaxLines > 0 and the indent of the last line plus the
\* left-stripped Placeholder is longer than Width; the first of these that
\* holds names the panic; and a call that panics so has neither changed the
\* text nor made a chunk or a line.
C5_ChecksExact ==
    LET narrow == t.Width < 1
        badTab == t.ExpandTabs /\ t.TabSize < 0
        ind == IF t.MaxLines = 1 THEN t.InitialIndent
               ELSE t.SubsequentIndent
        wide == t.MaxLines > 0
                /\ ByteLen(ind) + ByteLen(Lstrip(t.Placeholder)) > t.Width
    IN  pc \notin {"call", "check"} =>
            /\ (err \in ConfigPanics) <=> (narrow \/ badTab \/ wide)
            /\ narrow => err = PanicWidth
            /\ (~narrow /\ badTab) => err = PanicTabSize
            /\ (~narrow /\ ~badTab /\ wide) => err = PanicPlaceholder
            /\ (err \in ConfigPanics) =>
                   /\ pc = "panicked"
                   /\ chunks = <<>>
                   /\ lines = <<>>
                   /\ text = IF op = "Shorten"
                             THEN CollapseWhitespace(input) ELSE input

\* C5, where it is about: the placeholder check panics on the initial
\* indent of a one-line cap, which the subsequent indent would have passed.
C5_Reached ==
    /\ pc = "panicked"
    /\ err = PanicPlaceholder
    /\ t.MaxLines = 1
    /\ ByteLen(t.SubsequentIndent) + ByteLen(Lstrip(t.Placeholder))
           <= t.Width

\* C6: the loop over the lines raises no runtime panic.
C6_NoRuntimePanic == err # PanicSlice

\* Whether s is the strings of ss in order, one Newline between neighbours.
IsNewlineJoin(s, ss) ==
    LET first(k) == Runes(SubSeq(ss, 1, k - 1)) + (k - 1)
    IN  /\ Len(s) = Runes(ss) + (IF ss = <<>> THEN 0 ELSE Len(ss) - 1)
        /\ \A k \in 1..Len(ss) :
               /\ SubSeq(s, first(k) + 1, first(k) + Len(ss[k])) = ss[k]
               /\ k < Len(ss) => s[first(k) + Len(ss[k]) + 1] = Newline

\* C7: a call of Fill that returns, returns the lines Wrap returns for the
\* same text and options with one Newline between neighbours, and a call of
\* Fill that panics, panics as Wrap does.
C7_FillJoinsWrap ==
    op = "Fill" =>
        LET w == WrapOf(opts, input)
        IN  /\ pc = "done" =>
                  w.outcome = "return" /\ IsNewlineJoin(filled, w.lines)
            /\ pc = "panicked" => w.outcome = "panic" /\ w.err = err

\* C7, where it is about: Fill has joined three lines or more.
C7_Reached ==
    /\ pc = "done"
    /\ op = "Fill"
    /\ Len(lines) >= 3
    /\ Len(filled) > Runes(lines)

\* "Hello [...]"
HelloShortened ==
    <<"H", "e", "l", "l", "o", " ", "[", ".", ".", ".", "]">>

\* C8: Shorten("Hello  world, how are you?") with Width 11 and the other
\* options at their defaults returns "Hello [...]".
C8_ShortenHello ==
    (pc = "done" /\ op = "Shorten" /\ input = HelloText
       /\ opts = [NewTextWrapper EXCEPT !.Width = 11])
        => filled = HelloShortened

\* "The quick", "brown fox", "jumped", "over the", "lazy dog"
FoxLines ==
    <<<<"T", "h", "e", " ", "q", "u", "i", "c", "k">>,
      <<"b", "r", "o", "w", "n", " ", "f", "o", "x">>,
      <<"j", "u", "m", "p", "e", "d">>,
      <<"o", "v", "e", "r", " ", "t", "h", "e">>,
      <<"l", "a", "z", "y", " ", "d", "o", "g">>>>

\* The call Wrap("The quick brown fox jumped over the lazy dog", Width(10)).
FoxCall ==
    /\ op = "Wrap"
    /\ input = FoxText
    /\ opts = [NewTextWrapper EXCEPT !.Width = 10]

\* C9: Wrap("The quick brown fox jumped over the lazy dog") with Width 10
\* and the other options at their defaults ends, and returns the lines
\* "The quick", "brown fox", "jumped", "over the", "lazy dog".
C9_WrapFox ==
    FoxCall =>
        /\ pc # "panicked"
        /\ pc = "loop" => (i >= Len(chunks) \/ ~Repeats(t, chunks, i, lines))
        /\ pc = "done" => lines = FoxLines

\* C9, where it is about: that call has returned.
C9_Reached == FoxCall /\ pc = "done"

\* What a caller sees of two calls of Shorten is the same.
SameOutcome(x, y) ==
    /\ x.outcome = y.outcome
    /\ x.outcome = "return" => x.filled = y.filled

\* C10: Shorten gives the same outcome whatever ExpandTabs, TabSize,
\* ReplaceWhitespace and MaxLines are set to.
C10_ShortenIgnoresFour ==
    (op = "Shorten" /\ pc = "call") =>
        \A et \in BOOLEAN, ts \in TabSizes, rw \in BOOLEAN, ml \in LineCaps :
            SameOutcome(
                ShortenOf(opts, input),
                ShortenOf([opts EXCEPT !.ExpandTabs = et, !.TabSize = ts,
                               !.ReplaceWhitespace = rw, !.MaxLines = ml],
                          input))

(***************************************************************************)
(* Dedent.                                                                 *)
(***************************************************************************)
\* The lines of ls that are not blank: some character of theirs is no space.
NonBlank(ls) ==
    {k \in 1..Len(ls) : \E c \in 1..Len(ls[k]) : ls[k][c] \notin UnicodeSpace}

\* p is leading whitespace of line.
IsLeadingWhitespace(p, line) ==
    /\ Len(p) <= Len(line)
    /\ \A c \in 1..Len(p) : p[c] = line[c] /\ p[c] \in Whitespace

\* The n for which the first n characters of every non-blank line of ls are
\* leading whitespace all those lines share.
SharedIndentLens(ls) ==
    {n \in 0..Len(Concat(ls)) :
        \A k \in NonBlank(ls), l \in NonBlank(ls) :
            n <= Len(ls[k]) /\ IsLeadingWhitespace(Take(ls[k], n), ls[l])}

LongestSharedIndentLen(ls) ==
    CHOOSE n \in SharedIndentLens(ls) : \A m \in SharedIndentLens(ls) : m <= n

\* "a\n  b\nc\n"
DedentedText ==
    <<"a", Newline, " ", " ", "b", Newline, "c", Newline>>

\* C11: Dedent returns as many lines as it was given, in the same order,
\* every non-blank one without its first n characters, n the length of the
\* longest leading whitespace all non-blank lines share; blank lines do not
\* count for n.  Dedent("  a\n    b\n  c\n") is "a\n  b\nc\n".
C11_DedentSharedIndent ==
    (op = "Dedent" /\ pc = "done") =>
        LET given == SplitLines(input)
            got == SplitLines(filled)
        IN  /\ Len(got) = Len(given)
            /\ \A k \in NonBlank(given) :
                   got[k] = Drop(given[k], LongestSharedIndentLen(given))
            /\ input = IndentedText => filled = DedentedText

\* Dedent has returned a text of two non-blank lines or more that share an
\* indent, one of them indented further, and of a blank line that does not
\* begin with that indent.
C11_Reached ==
    /\ op = "Dedent" /\ pc = "done"
    /\ LET given == SplitLines(input)
           n == LongestSharedIndentLen(given)
       IN  /\ Cardinality(NonBlank(given)) >= 2
           /\ n > 0
           /\ \E k \in NonBlank(given) :
                  Len(LeadWhitespace(given[k])) > n
           /\ \E k \in 1..Len(given) :
                  k \notin NonBlank(given) /\ Len(given[k]) < n

(***************************************************************************)
(* The loop over the lines, pass by pass.                                  *)
(***************************************************************************)
\* The last pass of Wrap's loop has run to its end, and this is what it
\* left in indent, width, curLine, curLen and arm.
AfterPass == InOrPastLoop /\ op # "Dedent" /\ (i > 0 \/ lines # <<>>)

\* The last pass appended the placeholder.
AfterPlaceholderPass == AfterPass /\ AtLineCap

Filled ==
    GreedyFill(chunks, SkipLeading(t, chunks, i, lines), <<>>, 0,
               LineWidth(t, lines))

\* The inner loop of the pass about to run stops on a chunk longer than the
\* width of the line.
StopsOnLongChunk ==
    /\ pc = "loop" /\ i < Len(chunks)
    /\ Filled.i + 1 < Len(chunks)
    /\ Len(At(chunks, Filled.i + 1)) > LineWidth(t, lines)

Max(a, b) == IF a >= b THEN a ELSE b

\* The pass splits the chunk c the inner loop stopped on: the first n runes
\* of c, n = max(1, width - curLen), end the chunks of the line (unless they
\* are whitespace that DropWhitespace drops, and before the placeholder on
\* line MaxLines), the rest of c takes the place of c in chunks and is where
\* the next pass starts.
SplitsLongChunk ==
    LET f == Filled
        c == At(chunks, f.i + 1)
        n == Max(1, LineWidth(t, lines) - f.curLen)
        prefix == Take(c, n)
        suffix == Drop(c, n)
        kept == IF IsMaxLine(t, lines)
                THEN Take(curLine', Len(curLine') - 1) ELSE curLine'
    IN  /\ arm' = "split"
        /\ n <= Len(c)
        /\ chunks' = [chunks EXCEPT ![f.i + 2] = suffix]
        /\ prefix \o At(chunks', f.i + 1) = c
        /\ Len(At(chunks', f.i + 1)) < Len(c)
        /\ \/ kept = Append(f.curLine, prefix)
           \/ t.DropWhitespace /\ Strip(prefix) = <<>> /\ kept = f.curLine
        /\ pc' = "loop" => i' = f.i + 1

\* C13: with BreakLongWords, a pass whose inner loop stops on a chunk
\* longer than the width of the line splits that chunk: max(1, width -
\* curLen) runes go to the line, the rest replaces the chunk in place and is
\* the chunk the next pass starts with; the two parts make up the chunk and
\* the rest is shorter than the chunk.
C13_LongChunkIsSplit ==
    [][(Pass /\ t.BreakLongWords /\ StopsOnLongChunk) => SplitsLongChunk]_vars

\* The same of the passes that do not panic.
LongChunkIsSplitUnlessPanic ==
    [][(Pass /\ t.BreakLongWords /\ StopsOnLongChunk /\ err' = NoPanic)
           => SplitsLongChunk]_vars

Min(a, b) == IF a <= b THEN a ELSE b

\* A chunk of whitespace; the other chunks hold none.
IsWhitespaceChunk(c) == Strip(c) = <<>>

\* The places in chunks, counted from 1, of the chunks a pass from i to
\* next has gone past.
PassedBy(next) == (i + 1)..Min(next, Len(chunks))

\* The pass emits at most one line.  A line it emits is the indent and
\* then, whole and in order, chunks a..b the pass has gone past; the chunks
\* it has gone past and left out are whitespace; a chunk of the line longer
\* than the width that is not whitespace is the only chunk of the line.
EmitsWholeChunks ==
    /\ Len(lines') \in {Len(lines), Len(lines) + 1}
    /\ Take(lines', Len(lines)) = lines
    /\ IF Len(lines') = Len(lines)
       THEN \A k \in PassedBy(i') : IsWhitespaceChunk(chunks[k])
       ELSE \E a \in PassedBy(i') : \E b \in PassedBy(i') :
               /\ a <= b
               /\ lines'[Len(lines')] = indent' \o Concat(SubSeq(chunks, a, b))
               /\ \A k \in PassedBy(i') :
                      (k < a \/ k > b) => IsWhitespaceChunk(chunks[k])
               /\ \A k \in a..b :
                      (~IsWhitespaceChunk(chunks[k]) /\ Len(chunks[k]) > width')
                          => (a = b /\ arm' = "append")
    /\ (arm' = "append" /\ ~IsWhitespaceChunk(At(chunks, i' - 1))) =>
           curLine' = <<At(chunks, i' - 1)>>

\* C14: without BreakLongWords and with MaxLines 0 no pass changes a chunk,
\* every pass emits the chunks it goes past whole in one line, leaving out
\* whitespace chunks alone, and a long chunk that is not whitespace gets a
\* line to itself: it is appended whole to an empty line, and otherwise left
\* to the next pass.  Wrap returns when every chunk of the tokenizer has
\* been gone past.
C14_NoSplitWithoutBreak ==
    /\ [][(Pass /\ ~t.BreakLongWords /\ t.MaxLines = 0) =>
              (chunks' = chunks /\ arm' \in {"none", "append"}
               /\ EmitsWholeChunks)]_vars
    /\ []((pc = "done" /\ op = "Wrap" /\ ~t.BreakLongWords
           /\ t.MaxLines = 0) =>
              (i >= Len(chunks)
               /\ chunks = Tokenize(text, t.BreakOnHyphens)))

\* Wrap has returned two lines or more, the last one a long chunk appended
\* whole that the pass before, its line begun, had left.
C14_Reached ==
    /\ pc = "done" /\ op = "Wrap" /\ ~t.BreakLongWords /\ t.MaxLines = 0
    /\ arm = "append"
    /\ curLine # <<>>
    /\ ~IsWhitespaceChunk(curLine[1])
    /\ Len(curLine[1]) > width
    /\ Len(lines) >= 2
    /\ Len(chunks) >= 2
    /\ lines[Len(lines)] = indent \o chunks[Len(chunks)]
    /\ lines[Len(lines) - 1] =
           IndentOfLine(Len(lines) - 1) \o chunks[Len(chunks) - 1]
    /\ Len(chunks[Len(chunks) - 1]) <
           t.Width - Len(IndentOfLine(Len(lines) - 1))

(***************************************************************************)
(* The lines emitted.                                                      *)
(***************************************************************************)
\* Line k of lines is the one the placeholder was appended to.
IsPlaceholderLine(k) == t.MaxLines > 0 /\ k = t.MaxLines

\* Line k of lines without the runes of its indent.
Unindented(k) == Drop(lines[k], Len(IndentOfLine(k)))

\* C15: with DropWhitespace, every line emitted, the one with the
\* placeholder apart, holds something after its indent, does not end with a
\* whitespace character and, the first line apart, does not begin with one
\* after its indent.
C15_NoWhitespaceAtEnds ==
    (InOrPastLoop /\ op # "Dedent" /\ t.DropWhitespace) =>
        \A k \in 1..Len(lines) :
            ~IsPlaceholderLine(k) =>
                LET s == Unindented(k)
                IN  /\ s # <<>>
                    /\ ~IsWs(s[Len(s)])
                    /\ k > 1 => ~IsWs(s[1])

\* C16: the first line of lines starts with InitialIndent and every later
\* one with SubsequentIndent; a pass takes InitialIndent as long as no line
\* has been emitted, passes that emitted none included, and
\* SubsequentIndent after; the width of the pass is Width less that indent
\* (less the placeholder on line MaxLines), and the line the pass emits is
\* that indent followed by the chunks of the line.
C16_IndentByLinesEmitted ==
    /\ []((InOrPastLoop /\ op # "Dedent") =>
              \A k \in 1..Len(lines) :
                  /\ Len(IndentOfLine(k)) <= Len(lines[k])
                  /\ Take(lines[k], Len(IndentOfLine(k))) = IndentOfLine(k))
    /\ [][Pass =>
              /\ indent' = IF lines = <<>> THEN t.InitialIndent
                            ELSE t.SubsequentIndent
              /\ width' = t.Width - Len(indent')
                              - (IF t.MaxLines > 0
                                    /\ Len(lines) = t.MaxLines - 1
                                 THEN ByteLen(t.Placeholder) ELSE 0)
              /\ Len(lines') > Len(lines) =>
                     lines'[Len(lines')] = indent' \o Concat(curLine')]_vars

\* Wrap has returned two lines or more, InitialIndent and SubsequentIndent
\* differing and neither empty, and the first line was emitted by a pass
\* later than the first: the text begins with whitespace and the first line
\* does not.
C16_Reached ==
    /\ pc = "done" /\ op = "Wrap"
    /\ Len(lines) >= 2
    /\ t.InitialIndent # t.SubsequentIndent
    /\ t.InitialIndent # <<>>
    /\ t.SubsequentIndent # <<>>
    /\ text # <<>>
    /\ IsWs(text[1])
    /\ Unindented(1) # <<>>
    /\ ~IsWs(Unindented(1)[1])

\* The lines of lines without their indents, one after the other.
Unwrapped == Concat([k \in 1..Len(lines) |-> Unindented(k)])

\* The characters of s that are not whitespace, in order.
WithoutWhitespace(s) == SelectSeq(s, LAMBDA c : ~IsWs(c))

\* C17: when Wrap returns with MaxLines 0, the lines without their indents,
\* one after the other, are the text Wrap broke into chunks with nothing but
\* whitespace characters left out: the characters that are not whitespace
\* are the same in the same order; without DropWhitespace they are that
\* text exactly.
C17_NothingLost ==
    (pc \in {"return", "done"} /\ op \in {"Wrap", "Fill"} /\ t.MaxLines = 0) =>
        /\ WithoutWhitespace(Unwrapped) = WithoutWhitespace(text)
        /\ ~t.DropWhitespace => Unwrapped = text

\* Wrap has returned, MaxLines 0, two lines or more of a text of three
\* different characters or more that are not whitespace, with whitespace
\* left out.
C17_Reached ==
    /\ pc = "done" /\ op = "Wrap" /\ t.MaxLines = 0
    /\ Len(lines) >= 2
    /\ Unwrapped # text
    /\ Cardinality({text[k] : k \in 1..Len(text)} \ Whitespace) >= 3

=============================================================================
